---- MODULE Spec2Model ----
(***************************************************************************)
(* The empty-ok-all comparison server (comparisons/empty-ok-all/rust):     *)
(* main() builds an actix-web HttpServer whose App registers one resource, *)
(* "/", served by a handler returning "", binds it to 127.0.0.1:8080,      *)
(* propagates a bind error with `?`, and awaits the running server.        *)
(*                                                                         *)
(* Instances of the program share one machine, hence one port.  Clients    *)
(* open connections to the port, send requests and read responses.         *)
(***************************************************************************)
EXTENDS Naturals, Sequences, FiniteSets

\* ---------------------------------------------------------------- bounds
NumInstances == 2      \* instances of the program started on the machine
NumConns == 2          \* client connections that exist at a time

\* ------------------------------------------------------- program constants
StatusOk == 200
StatusNotFound == 404
StatusMethodNotAllowed == 405
ExitSuccess == 0
ExitFailure == 1

Procs == 1..NumInstances
Conns == 1..NumConns
Methods == {"GET", "POST"}
Paths == {"/", "/missing"}

\* What a request carries besides its method and path: either nothing, or an
\* extra header and a body.
Extras == {[headers |-> "none", body |-> <<>>], [headers |-> "x-extra", body |-> <<"x">>]}

\* A parsed HTTP request.
Requests ==
  {[method |-> m, path |-> q, headers |-> e.headers, body |-> e.body] :
     m \in Methods, q \in Paths, e \in Extras}

NoReq == [method |-> "-", path |-> "-", headers |-> "none", body |-> <<>>]
NoResp == [status |-> 0, body |-> <<>>]
NoApp == [resources |-> {}]

\* `|| async { "" }`: the handler takes no extractor and returns the empty
\* string, which actix-web turns into a 200 response carrying that body.
HandlerNonEmpty(req) == [status |-> StatusOk, body |-> <<"o", "k">>]

Handler(req) == [status |-> StatusOk, body |-> <<>>]

\* `web::resource("/")`: a resource matches a request whose path is exactly
\* its pattern.
ResourceMatchesPrefix(res, req) == res.pattern = "/"

ResourceMatches(res, req) == req.path = res.pattern

\* `.to(handler)`: the resource's handler for every method (no guard).
ResourceAcceptsGet(res, req) == req.method = "GET"

ResourceAccepts(res, req) == res.methods = "any" \/ req.method = res.methods

\* `App::new().service(web::resource("/").to(..))`: the application the
\* factory closure builds for each worker.
AppFactory == [resources |-> {[pattern |-> "/", methods |-> "any"]}]

\* An App without a default service answers an unmatched request 404.
DefaultService(req) == [status |-> StatusNotFound, body |-> <<>>]

\* Route match, then handler invocation.
Dispatch(a, req) ==
  IF \E res \in a.resources : ResourceMatches(res, req)
  THEN LET res == CHOOSE r \in a.resources : ResourceMatches(r, req)
       IN IF ResourceAccepts(res, req)
          THEN Handler(req)
          ELSE [status |-> StatusMethodNotAllowed, body |-> <<>>]
  ELSE DefaultService(req)

VARIABLES
  pc,            \* per instance: where main() is
  exitCode,      \* per instance: the exit code, once pc is "exited"
  bindErr,       \* per instance: the error bind() returned, or "none"
  bindCalls,     \* per instance: how many times bind() was called
  listener,      \* per instance: it holds the listening socket on the port
  app,           \* per instance: the App its workers run
  signalled,     \* per instance: a termination signal was delivered to it
  conn           \* per connection to the port: state, request, response, sent

vars == <<pc, exitCode, bindErr, bindCalls, listener, app, signalled, conn>>

server == <<pc, exitCode, bindErr, bindCalls, listener, app, signalled>>

FreeConn == [state |-> "free", req |-> NoReq, resp |-> NoResp, sent |-> 0]

PortFree == \A q \in Procs : ~listener[q]

\* The instance a connection to the port talks to: the one listening on it.
Holder == CHOOSE p \in Procs : listener[p]

Init ==
  /\ pc = [p \in Procs |-> "init"]
  /\ exitCode = [p \in Procs |-> ExitSuccess]
  /\ bindErr = [p \in Procs |-> "none"]
  /\ bindCalls = [p \in Procs |-> 0]
  /\ listener = [p \in Procs |-> FALSE]
  /\ app = [p \in Procs |-> NoApp]
  /\ signalled = [p \in Procs |-> FALSE]
  /\ conn = [c \in Conns |-> FreeConn]

\* A bind that does not mind the port being held (as with SO_REUSEPORT).
BindOkShared(p) ==
  /\ pc[p] = "init"
  /\ pc' = [pc EXCEPT ![p] = "bound"]
  /\ listener' = [listener EXCEPT ![p] = TRUE]
  /\ bindCalls' = [bindCalls EXCEPT ![p] = @ + 1]
  /\ UNCHANGED <<exitCode, bindErr, app, signalled, conn>>

\* `.bind(("127.0.0.1", 8080))` returns Ok: the port was free and the
\* instance now holds the listening socket.
BindOk(p) ==
  /\ pc[p] = "init"
  /\ PortFree
  /\ pc' = [pc EXCEPT ![p] = "bound"]
  /\ listener' = [listener EXCEPT ![p] = TRUE]
  /\ bindCalls' = [bindCalls EXCEPT ![p] = @ + 1]
  /\ UNCHANGED <<exitCode, bindErr, app, signalled, conn>>

\* A bind error that is dropped instead of propagated (no `?`).
BindFailIgnored(p) ==
  /\ pc[p] = "init"
  /\ pc' = [pc EXCEPT ![p] = "bound"]
  /\ bindErr' = [bindErr EXCEPT ![p] = IF PortFree THEN "PermissionDenied" ELSE "AddrInUse"]
  /\ bindCalls' = [bindCalls EXCEPT ![p] = @ + 1]
  /\ UNCHANGED <<exitCode, listener, app, signalled, conn>>

\* `.bind(..)?` returns Err (port in use, permission denied, ...): `?` returns
\* the error from main(), and the process exits with a failure code.
BindFail(p) ==
  /\ pc[p] = "init"
  /\ pc' = [pc EXCEPT ![p] = "exited"]
  /\ exitCode' = [exitCode EXCEPT ![p] = ExitFailure]
  /\ bindErr' = [bindErr EXCEPT ![p] = IF PortFree THEN "PermissionDenied" ELSE "AddrInUse"]
  /\ bindCalls' = [bindCalls EXCEPT ![p] = @ + 1]
  /\ UNCHANGED <<listener, app, signalled, conn>>

\* `.run()`: the workers start, each building its App from the factory.
Run(p) ==
  /\ pc[p] = "bound"
  /\ pc' = [pc EXCEPT ![p] = "serving"]
  /\ app' = [app EXCEPT ![p] = AppFactory]
  /\ UNCHANGED <<exitCode, bindErr, bindCalls, listener, signalled, conn>>

\* A client connects to the port: the kernel queues the connection on the
\* listening socket.
Connect(c) ==
  /\ conn[c].state = "free"
  /\ ~PortFree
  /\ conn' = [conn EXCEPT ![c].state = "queued"]
  /\ UNCHANGED server

\* A server that serves one connection and then returns from main().
AcceptOnce(p, c) ==
  /\ pc[p] = "serving"
  /\ listener[p]
  /\ conn[c].state = "queued"
  /\ conn' = [d \in Conns |-> FreeConn]
  /\ pc' = [pc EXCEPT ![p] = "exited"]
  /\ listener' = [listener EXCEPT ![p] = FALSE]
  /\ UNCHANGED <<exitCode, bindErr, bindCalls, app, signalled>>

\* `.run().await`: the running server accepts a queued connection and gives
\* it a task of its own.
Accept(p, c) ==
  /\ pc[p] = "serving"
  /\ listener[p]
  /\ conn[c].state = "queued"
  /\ conn' = [conn EXCEPT ![c].state = "open"]
  /\ UNCHANGED server

\* The connection's task has read and parsed a whole request.
Receive(c, req) ==
  /\ conn[c].state = "open"
  /\ conn' = [conn EXCEPT ![c].state = "received", ![c].req = req]
  /\ UNCHANGED server

\* A handler that answers from a request slot shared by all connections.
RespondShared(c) ==
  /\ conn[c].state = "received"
  /\ LET d == CHOOSE k \in Conns : conn[k].state = "received"
     IN conn' = [conn EXCEPT ![c].state = "responded",
                             ![c].resp = Dispatch(app[Holder], conn[d].req),
                             ![c].sent = @ + 1]
  /\ UNCHANGED server

\* A connection task that writes its response twice.
RespondTwice(c) ==
  /\ conn[c].state = "received"
  /\ conn' = [conn EXCEPT ![c].state = "responded",
                          ![c].resp = Dispatch(app[Holder], conn[c].req),
                          ![c].sent = @ + 2]
  /\ UNCHANGED server

\* Route match, handler invocation, and the response written to the client.
Respond(c) ==
  /\ conn[c].state = "received"
  /\ conn' = [conn EXCEPT ![c].state = "responded",
                          ![c].resp = Dispatch(app[Holder], conn[c].req),
                          ![c].sent = @ + 1]
  /\ UNCHANGED server

\* The response is flushed: request and response are dropped, and the
\* connection is kept alive for the next request.
Flush(c) ==
  /\ conn[c].state = "responded"
  /\ conn' = [conn EXCEPT ![c] = [FreeConn EXCEPT !.state = "open"]]
  /\ UNCHANGED server

\* A connection error that is propagated out of main() with `?`.
TransportErrorFatal(c) ==
  /\ conn[c].state \in {"open", "received"}
  /\ conn' = [d \in Conns |-> FreeConn]
  /\ pc' = [pc EXCEPT ![Holder] = "exited"]
  /\ exitCode' = [exitCode EXCEPT ![Holder] = ExitFailure]
  /\ listener' = [listener EXCEPT ![Holder] = FALSE]
  /\ UNCHANGED <<bindErr, bindCalls, app, signalled>>

\* An I/O failure while reading the request or writing the response: the
\* connection's task ends and the connection is dropped.
TransportError(c) ==
  /\ conn[c].state \in {"open", "received"}
  /\ conn' = [conn EXCEPT ![c] = [FreeConn EXCEPT !.state = "failed"]]
  /\ UNCHANGED server

\* The client closes an idle connection, or forgets one that failed.
Close(c) ==
  /\ conn[c].state \in {"open", "failed"}
  /\ conn' = [conn EXCEPT ![c] = FreeConn]
  /\ UNCHANGED server

\* A shutdown that main() reports as an error.
SignalFails(p) ==
  /\ pc[p] = "serving"
  /\ pc' = [pc EXCEPT ![p] = "exited"]
  /\ exitCode' = [exitCode EXCEPT ![p] = ExitFailure]
  /\ listener' = [listener EXCEPT ![p] = FALSE]
  /\ conn' = [c \in Conns |-> FreeConn]
  /\ signalled' = [signalled EXCEPT ![p] = TRUE]
  /\ UNCHANGED <<bindErr, bindCalls, app>>

\* The running server is terminated from outside (SIGINT, SIGTERM): it shuts
\* down, its sockets are closed, the server future resolves Ok(()), `.await`
\* returns it from main() and the process exits.
Signal(p) ==
  /\ pc[p] = "serving"
  /\ pc' = [pc EXCEPT ![p] = "exited"]
  /\ exitCode' = [exitCode EXCEPT ![p] = ExitSuccess]
  /\ listener' = [listener EXCEPT ![p] = FALSE]
  /\ conn' = [c \in Conns |-> FreeConn]
  /\ signalled' = [signalled EXCEPT ![p] = TRUE]
  /\ UNCHANGED <<bindErr, bindCalls, app>>

Next ==
  \/ \E p \in Procs : BindOk(p)
  \/ \E p \in Procs : BindFail(p)
  \/ \E p \in Procs : Run(p)
  \/ \E c \in Conns : Connect(c)
  \/ \E p \in Procs, c \in Conns : Accept(p, c)
  \/ \E c \in Conns, req \in Requests : Receive(c, req)
  \/ \E c \in Conns : Respond(c)
  \/ \E c \in Conns : Flush(c)
  \/ \E c \in Conns : TransportError(c)
  \/ \E c \in Conns : Close(c)
  \/ \E p \in Procs : Signal(p)

Spec == Init /\ [][Next]_vars

\* The runtime schedules every connection task that can make progress.
FairSpec == Spec /\ \A c \in Conns : WF_vars(Respond(c))

TypeOK ==
  /\ pc \in [Procs -> {"init", "bound", "serving", "exited"}]
  /\ exitCode \in [Procs -> {ExitSuccess, ExitFailure}]
  /\ listener \in [Procs -> BOOLEAN]
  /\ signalled \in [Procs -> BOOLEAN]
  /\ bindErr \in [Procs -> {"none", "AddrInUse", "PermissionDenied"}]
  /\ \A c \in Conns :
       /\ conn[c].state \in {"free", "queued", "open", "received", "responded", "failed"}
       /\ conn[c].req \in Requests \cup {NoReq}
\* ------------------------------------------------------------- properties

Responded(c) == conn[c].state = "responded"

EmptyOk(resp) == resp.status = StatusOk /\ Len(resp.body) = 0

\* C1: in every reachable state of a server whose bind succeeded, every
\* response sent for a request whose path is exactly "/" has status 200 and a
\* body of length 0.
C1_RootIsEmptyOk ==
  \A c \in Conns :
    (Responded(c) /\ conn[c].req.path = "/") =>
      (conn[c].resp.status = StatusOk /\ Len(conn[c].resp.body) = 0)

C1_Witness ==
  \E c \in Conns : Responded(c) /\ conn[c].req.path = "/" /\ pc[Holder] = "serving"

\* C2: the response to a request on "/" does not depend on the request's
\* method, headers or body: any two requests to "/" are both answered 200
\* with an empty body, whatever their other fields.
C2_RootIgnoresRequest ==
  \A c, d \in Conns :
    (Responded(c) /\ Responded(d) /\ conn[c].req.path = "/" /\ conn[d].req.path = "/") =>
      (conn[c].resp = conn[d].resp /\ EmptyOk(conn[c].resp) /\ EmptyOk(conn[d].resp))

C2_Witness ==
  \E c, d \in Conns :
    /\ Responded(c) /\ Responded(d)
    /\ conn[c].req.path = "/" /\ conn[d].req.path = "/"
    /\ conn[c].req.method = "GET" /\ conn[d].req.method = "POST"
    /\ conn[c].req.headers # conn[d].req.headers
    /\ conn[c].req.body = <<>> /\ conn[d].req.body # <<>>

\* C3: for every request whose path is anything other than "/", the response
\* status is not 200; it is the default not-found status, 404.
C3_OtherPathsNotFound ==
  \A c \in Conns :
    (Responded(c) /\ conn[c].req.path # "/") =>
      (conn[c].resp.status # StatusOk /\ conn[c].resp.status = StatusNotFound)

C3_Witness ==
  \E c \in Conns : Responded(c) /\ conn[c].req.path = "/missing"

\* C4: if binding the listening socket fails at startup, the process
\* terminates with a non-zero exit code without ever having run the server
\* (so it never accepted a connection or sent a response); the bind was
\* called once, and the instance holds no listening socket.
C4_BindFailureIsFatal ==
  \A p \in Procs :
    bindErr[p] # "none" =>
      /\ pc[p] = "exited"
      /\ exitCode[p] # ExitSuccess
      /\ app[p] = NoApp
      /\ ~listener[p]
      /\ bindCalls[p] = 1

C4_Witness ==
  \E p \in Procs : bindErr[p] = "PermissionDenied" /\ pc[p] = "exited"

\* C5: when an instance binds while another instance is listening on the
\* port, its bind fails with a bind error, and the step changes nothing of
\* the listening instance or of its connections; two instances never listen
\* at once.
C5_SecondInstance ==
  /\ [][\A p \in Procs :
          (pc[p] = "init" /\ pc'[p] # "init" /\ ~PortFree) =>
            /\ bindErr'[p] = "AddrInUse"
            /\ pc'[p] = "exited"
            /\ conn' = conn
            /\ \A q \in Procs \ {p} :
                 /\ pc'[q] = pc[q]
                 /\ listener'[q] = listener[q]
                 /\ app'[q] = app[q]]_vars
  /\ [](\A p, q \in Procs : (listener[p] /\ listener[q]) => p = q)

C5_Witness ==
  \E p, q \in Procs :
    /\ bindErr[p] = "AddrInUse"
    /\ pc[q] = "serving" /\ listener[q]
    /\ \E c \in Conns : Responded(c) /\ conn[c].req.path = "/" /\ EmptyOk(conn[c].resp)

\* C6: once the bind has succeeded, the server goes on to serve and stays
\* serving: no step other than its external termination moves it out of that
\* state, closes its listening socket or changes its App.
C6_ServesUntilTerminated ==
  [][\A p \in Procs :
       /\ pc[p] = "bound" => (pc'[p] \in {"bound", "serving"} /\ listener'[p])
       /\ pc[p] = "serving" =>
            \/ pc'[p] = "serving" /\ listener'[p] /\ app'[p] = app[p]
            \/ signalled'[p] /\ pc'[p] = "exited"]_vars

C6_Witness ==
  \E p \in Procs :
    /\ pc[p] = "serving"
    /\ \E c, d \in Conns : conn[c].state = "failed" /\ conn[d].state = "open"

\* C7: a transport error on one connection ends only that connection: the
\* server's state (listening socket included) and every other connection are
\* unchanged by it, and the process does not terminate; the only exit with a
\* failure code is the one after a bind failure.
C7_TransportErrorIsLocal ==
  /\ [][\A c \in Conns :
          (conn[c].state \in {"open", "received"} /\ conn'[c].state = "failed") =>
            /\ server' = server
            /\ \A d \in Conns \ {c} : conn'[d] = conn[d]]_vars
  /\ [](\A p \in Procs :
          (pc[p] = "exited" /\ exitCode[p] # ExitSuccess) => bindErr[p] # "none")

C7_Witness ==
  \E c, d \in Conns :
    /\ conn[c].state = "failed"
    /\ conn[d].state = "responded"
    /\ pc[Holder] = "serving"

\* C8: an instance holds the listening socket exactly from its successful
\* bind until its termination; an instance that was terminated from outside
\* by a signal exited with code 0.
C8_SocketLifetime ==
  \A p \in Procs :
    /\ listener[p] <=> pc[p] \in {"bound", "serving"}
    /\ (pc[p] = "exited" /\ signalled[p]) => exitCode[p] = ExitSuccess

C8_Witness ==
  \E p \in Procs : pc[p] = "exited" /\ signalled[p] /\ app[p] = AppFactory

\* The response the specification gives for a path.
ExpectedFor(path) ==
  IF path = "/" THEN [status |-> StatusOk, body |-> <<>>]
  ELSE [status |-> StatusNotFound, body |-> <<>>]

\* C9: under any interleaving, the response written on a connection is
\* determined by that connection's own request path, and writing it changes
\* neither the server's state (listening socket, App) nor any other
\* connection.
C9_RequestsAreIndependent ==
  [][\A c \in Conns :
       (conn[c].state = "received" /\ conn'[c].state = "responded") =>
         /\ conn'[c].resp = ExpectedFor(conn[c].req.path)
         /\ conn'[c].req = conn[c].req
         /\ server' = server
         /\ \A d \in Conns \ {c} : conn'[d] = conn[d]]_vars

C9_Witness ==
  \E c, d \in Conns :
    /\ Responded(c) /\ Responded(d)
    /\ conn[c].req.path # conn[d].req.path
    /\ conn[c].resp # conn[d].resp

\* C10: a request received on a connection has had no response written
\* until the connection has responded, and then exactly one; a received
\* request stops being pending only by its response being written, by its
\* connection failing or by the server being terminated; and, under fair
\* scheduling of the connection tasks, no request stays pending forever.
C10_ExactlyOneResponse ==
  /\ [](\A c \in Conns : conn[c].sent = IF Responded(c) THEN 1 ELSE 0)
  /\ [][\A c \in Conns :
          (conn[c].state = "received" /\ conn'[c].state # "received") =>
            conn'[c].state \in {"responded", "failed", "free"}]_vars
  /\ \A c \in Conns : []<>(conn[c].state # "received")

C10_Witness ==
  \E c, d \in Conns :
    /\ Responded(c) /\ conn[c].sent = 1
    /\ conn[d].state = "received" /\ conn[d].sent = 0
====
